---- MODULE Spec2Model ----
(***************************************************************************)
(* Model of the SWAPI fetch -> process -> filter -> export pipeline.       *)
(*                                                                         *)
(* The repository holds two revisions of the same classes:                 *)
(*   src/main.py           (variant "main")                                *)
(*   src/swapi_manager.py  (variant "swapi_manager")                       *)
(* The variable `variant` says which file's classes are running.           *)
(*                                                                         *)
(* Python exceptions are modelled by their names:                          *)
(*   "HTTPError"  requests' raise_for_status       (spec: NetworkError)    *)
(*   "KeyError"   pandas column lookup / drop      (spec: SchemaError)     *)
(*   "ValueError" main.py's unregistered endpoint  (spec: Unregistered-    *)
(*                                                  EntityError)           *)
(*   "OSError"    the workbook cannot be opened    (spec: FileWriteError)  *)
(***************************************************************************)
EXTENDS Integers, Sequences, FiniteSets, TLC

VARIABLES variant, processors, data, firstFetched, call, ret

vars == <<variant, processors, data, firstFetched, call, ret>>

(***************************************************************************)
(* Bounds                                                                  *)
(***************************************************************************)
MaxPages == 3

MaxPageLen == 3

MaxRecords == 3

StoreMaxPages == 2

(***************************************************************************)
(* Generic helpers                                                         *)
(***************************************************************************)
Range(s) == {s[i] : i \in 1..Len(s)}

SeqsUpTo(S, n) == UNION {[1..k -> S] : k \in 0..n}

Variants == {"main", "swapi_manager"}

(***************************************************************************)
(* JSON / pandas cell values.  A string is a tuple of characters so that   *)
(* parsing and case conversion are computed, not assumed.                  *)
(***************************************************************************)
Str(s) == [t |-> "str", s |-> s, n |-> 0]

Num(n) == [t |-> "num", s |-> <<>>, n |-> n]

NaN == [t |-> "nan", s |-> <<>>, n |-> 0]

Digits == {"0", "1", "2", "3", "4", "5", "6", "7", "8", "9"}

DigitVal(c) ==
    CASE c = "0" -> 0 [] c = "1" -> 1 [] c = "2" -> 2 [] c = "3" -> 3
      [] c = "4" -> 4 [] c = "5" -> 5 [] c = "6" -> 6 [] c = "7" -> 7
      [] c = "8" -> 8 [] c = "9" -> 9

RECURSIVE DigitsValue(_, _)
DigitsValue(s, acc) ==
    IF s = <<>> THEN acc ELSE DigitsValue(Tail(s), acc * 10 + DigitVal(Head(s)))

\* A raw record: the JSON object as an ordered list of key/value pairs.
Keys(rec) == {rec[i].k : i \in 1..Len(rec)}

HasKey(rec, k) == k \in Keys(rec)

Get(rec, k) == LET i == CHOOSE j \in 1..Len(rec) : rec[j].k = k IN rec[i].v

(***************************************************************************)
(* pandas.DataFrame as used by the processors: an ordered list of column   *)
(* labels and an ordered list of rows, each row a function on the labels.  *)
(***************************************************************************)
RECURSIVE AppendNew(_, _)
AppendNew(cols, ks) ==
    IF ks = <<>> THEN cols
    ELSE AppendNew(IF Head(ks) \in Range(cols) THEN cols ELSE Append(cols, Head(ks)),
                   Tail(ks))

RECURSIVE UnionKeys(_, _)
UnionKeys(json_data, cols) ==
    IF json_data = <<>> THEN cols
    ELSE UnionKeys(Tail(json_data),
                   AppendNew(cols, [i \in 1..Len(Head(json_data)) |-> Head(json_data)[i].k]))

\* pd.DataFrame(json_data): columns are the keys in order of first
\* appearance; a key a record lacks is NaN in that record's row.
DataFrame(json_data) ==
    LET cols == UnionKeys(json_data, <<>>)
    IN [cols |-> cols,
        rows |-> [i \in 1..Len(json_data) |->
                    [c \in Range(cols) |->
                        IF HasKey(json_data[i], c) THEN Get(json_data[i], c) ELSE NaN]]]

EmptyDF == [cols |-> <<>>, rows |-> <<>>]

\* df[c] = values : replaces the column in place, or appends a new one.
SetColumn(df, c, values) ==
    [cols |-> IF c \in Range(df.cols) THEN df.cols ELSE Append(df.cols, c),
     rows |-> [i \in 1..Len(df.rows) |->
                 [d \in Range(df.cols) \cup {c} |->
                     IF d = c THEN values[i] ELSE df.rows[i][d]]]]

\* df[c] read as a list of values (the caller checks c is a column).
Column(df, c) == [i \in 1..Len(df.rows) |-> df.rows[i][c]]

\* Mutant of to_numeric: errors='ignore', an unparsable text is kept as it is.
to_numeric_ignore(v) ==
    IF v.t = "str" /\ v.s # <<>> /\ Range(v.s) \subseteq Digits
    THEN Num(DigitsValue(v.s, 0)) ELSE v

\* pd.to_numeric(x, errors='coerce') on one cell.
to_numeric(v) ==
    IF v.t = "num" THEN v
    ELSE IF v.t = "nan" THEN NaN
    ELSE IF v.s # <<>> /\ Range(v.s) \subseteq Digits THEN Num(DigitsValue(v.s, 0))
    ELSE NaN

\* df.drop(columns=columns_to_drop, inplace=True), errors='raise' by default:
\* a label that is not a column raises KeyError and nothing is dropped.
drop(df, columns_to_drop) ==
    IF ~(Range(columns_to_drop) \subseteq Range(df.cols))
    THEN [err |-> "KeyError", df |-> df]
    ELSE LET keep == SelectSeq(df.cols, LAMBDA c : c \notin Range(columns_to_drop))
         IN [err |-> "none",
             df  |-> [cols |-> keep,
                      rows |-> [i \in 1..Len(df.rows) |->
                                  [c \in Range(keep) |-> df.rows[i][c]]]]]

(***************************************************************************)
(* The processors                                                          *)
(***************************************************************************)
Kinds == {"People", "Planets", "Films"}

\* The field each processor reads with df[...].
Required(kind) ==
    CASE kind = "People" -> "name"
      [] kind = "Planets" -> "population"
      [] kind = "Films" -> "title"

\* FilmsProcessor adds film_title in main.py and film_titles in swapi_manager.py.
FilmColumn(v) == IF v = "main" THEN "film_title" ELSE "film_titles"

PeopleProcessor(json_data) ==
    LET df == DataFrame(json_data)
    IN IF "name" \notin Range(df.cols) THEN [err |-> "KeyError", df |-> EmptyDF]
       ELSE [err |-> "none", df |-> SetColumn(df, "full_name", Column(df, "name"))]

PlanetsProcessor(json_data) ==
    LET df == DataFrame(json_data)
    IN IF "population" \notin Range(df.cols) THEN [err |-> "KeyError", df |-> EmptyDF]
       ELSE [err |-> "none",
             df |-> SetColumn(df, "population",
                      [i \in 1..Len(df.rows) |-> to_numeric(df.rows[i]["population"])])]

FilmsProcessor(v, json_data) ==
    LET df == DataFrame(json_data)
    IN IF "title" \notin Range(df.cols) THEN [err |-> "KeyError", df |-> EmptyDF]
       ELSE [err |-> "none", df |-> SetColumn(df, FilmColumn(v), Column(df, "title"))]

\* processor.process(json_data) for the processor object of the given kind.
process(v, kind, json_data) ==
    CASE kind = "People" -> PeopleProcessor(json_data)
      [] kind = "Planets" -> PlanetsProcessor(json_data)
      [] kind = "Films" -> FilmsProcessor(v, json_data)

(***************************************************************************)
(* SWAPIClient.fetch_json.  The remote endpoint is a list of pages; page i *)
(* is [results, next] with next the index of the following page or 0 for   *)
(* null/absent.  failAt is the index of the page whose request answers     *)
(* with a non-2xx status (0: none).                                        *)
(***************************************************************************)
\* main.py: one request, the first page's results, `next` is not read.
main_fetch_json(server, failAt) ==
    IF failAt = 1 THEN [err |-> "HTTPError", data |-> <<>>]
    ELSE [err |-> "none", data |-> server[1].results]

\* swapi_manager.py: the `while url:` loop.
RECURSIVE fetch_loop(_, _, _, _)
fetch_loop(server, failAt, url, all_data) ==
    IF url = 0 THEN [err |-> "none", data |-> all_data]
    ELSE IF failAt = url THEN [err |-> "HTTPError", data |-> <<>>]
    ELSE fetch_loop(server, failAt, server[url].next, all_data \o server[url].results)

\* Mutant of fetch_json: response.raise_for_status() left out.
fetch_json_unchecked(server, failAt) == fetch_loop(server, 0, 1, <<>>)

fetch_json(server, failAt) == fetch_loop(server, failAt, 1, <<>>)

client_fetch_json(v, server, failAt) ==
    IF v = "main" THEN main_fetch_json(server, failAt) ELSE fetch_json(server, failAt)

(***************************************************************************)
(* State after construction (SWAPIDataManager.__init__): no processors, no *)
(* data.  processors maps an endpoint to the kind of its processor or to   *)
(* "none"; data is the dict as its list of items in insertion order.       *)
(* firstFetched, call and ret are observations: the endpoints in order of  *)
(* their first stored table, and the last call with its outcome (for       *)
(* save_to_excel, the to_excel calls it made).                             *)
(***************************************************************************)
Str_people == <<"p", "e", "o", "p", "l", "e">>

Str_films == <<"f", "i", "l", "m", "s">>

Endpoints == {Str_people, Str_films}

Pending == [err |-> "pending"]

ManagerInit ==
    /\ processors = [e \in Endpoints |-> "none"]
    /\ data = <<>>
    /\ firstFetched = <<>>

(***************************************************************************)
(* Inputs                                                                  *)
(***************************************************************************)
Luke == <<"L", "u", "k", "e">>

Leia == <<"L", "e", "i", "a">>

Hope == <<"H", "o", "p", "e">>

Pop1000 == <<"1", "0", "0", "0">>

Pop42 == <<"4", "2">>

PopUnknown == <<"u", "n", "k", "n", "o", "w", "n">>

LinearChain(pages) ==
    [i \in 1..Len(pages) |->
        [results |-> pages[i], next |-> IF i < Len(pages) THEN i + 1 ELSE 0]]

\* Pages for the pagination runs: two distinguishable records.
FetchPool == {<<[k |-> "name", v |-> Str(Luke)]>>, <<[k |-> "name", v |-> Str(Leia)]>>}

FetchChains ==
    {LinearChain(ps) : ps \in SeqsUpTo(SeqsUpTo(FetchPool, MaxPageLen), MaxPages) \ {<<>>}}

\* Records for the processor runs: every combination of the three fields
\* the processors read being present or absent.
OptField(k, vals) == {<<>>} \cup {<<[k |-> k, v |-> Str(x)]>> : x \in vals}

ProcessPool ==
    {n \o t \o p : n \in OptField("name", {Luke}),
                   t \in OptField("title", {Hope}),
                   p \in OptField("population", {Pop1000, PopUnknown, Pop42})}

(***************************************************************************)
(* SpecFetch: one call of SWAPIClient.fetch_json against a chain of pages. *)
(***************************************************************************)
InitFetch ==
    /\ variant \in Variants
    /\ ManagerInit
    /\ \E server \in FetchChains : \E failAt \in 0..Len(server) :
          call = [op |-> "fetch_json", server |-> server, failAt |-> failAt]
    /\ ret = Pending

FetchJsonMain ==
    /\ variant = "main"
    /\ call.op = "fetch_json" /\ ret = Pending
    /\ ret' = client_fetch_json(variant, call.server, call.failAt)
    /\ UNCHANGED <<variant, processors, data, firstFetched, call>>

FetchJsonManager ==
    /\ variant = "swapi_manager"
    /\ call.op = "fetch_json" /\ ret = Pending
    /\ ret' = client_fetch_json(variant, call.server, call.failAt)
    /\ UNCHANGED <<variant, processors, data, firstFetched, call>>

NextFetch == FetchJsonMain \/ FetchJsonManager

SpecFetch == InitFetch /\ [][NextFetch]_vars

(***************************************************************************)
(* SpecProcess: one call of a processor's process() on a list of records.  *)
(***************************************************************************)
InitProcess ==
    /\ variant \in Variants
    /\ ManagerInit
    /\ \E kind \in Kinds : \E json_data \in SeqsUpTo(ProcessPool, MaxRecords) :
          call = [op |-> "process", kind |-> kind, json_data |-> json_data]
    /\ ret = Pending

Process ==
    /\ call.op = "process" /\ ret = Pending
    /\ ret' = process(variant, call.kind, call.json_data)
    /\ UNCHANGED <<variant, processors, data, firstFetched, call>>

NextProcess == Process

SpecProcess == InitProcess /\ [][NextProcess]_vars

(***************************************************************************)
(* Spec: the SWAPIDataManager driven by any sequence of calls.             *)
(***************************************************************************)
\* The dict self.data as its list of items.
HasItem(d, e) == \E i \in 1..Len(d) : d[i].k = e

GetItem(d, e) == LET i == CHOOSE j \in 1..Len(d) : d[j].k = e IN d[i].v

\* Mutant of SetItem: a second entry is added for a key that is present.
SetItem_append(d, e, df) == Append(d, [k |-> e, v |-> df])

\* Mutant of SetItem: an assigned key moves to the end of the dict.
SetItem_move_to_end(d, e, df) ==
    Append(SelectSeq(d, LAMBDA it : it.k # e), [k |-> e, v |-> df])

\* d[e] = df : an existing key keeps its position, a new key goes last.
SetItem(d, e, df) ==
    IF HasItem(d, e)
    THEN [i \in 1..Len(d) |-> IF d[i].k = e THEN [k |-> e, v |-> df] ELSE d[i]]
    ELSE Append(d, [k |-> e, v |-> df])

DictKeys(d) == [i \in 1..Len(d) |-> d[i].k]

\* str.capitalize(): first character upper case, the rest lower case.
UpperOf(c) == CASE c = "p" -> "P" [] c = "f" -> "F" [] OTHER -> c

LowerOf(c) == CASE c = "P" -> "p" [] c = "F" -> "f" [] OTHER -> c

capitalize(s) == [i \in 1..Len(s) |-> IF i = 1 THEN UpperOf(s[i]) ELSE LowerOf(s[i])]

\* The sheet_name passed to df.to_excel.
sheet_name(v, endpoint) == IF v = "main" THEN endpoint ELSE capitalize(endpoint)

\* What the remote API serves in the manager runs: a first page holding
\* RecA or RecB, followed by pages holding RecB, one record per page.
RecA == <<[k |-> "name", v |-> Str(Luke)], [k |-> "population", v |-> Str(Pop42)]>>

RecB == <<[k |-> "population", v |-> Str(PopUnknown)]>>

StoreServers ==
    {LinearChain([i \in 1..n |-> IF i = 1 THEN <<first>> ELSE <<RecB>>]) :
        first \in {RecA, RecB}, n \in 1..StoreMaxPages}

\* Processors registered in the manager runs.  RecA and RecB carry no title,
\* so a FilmsProcessor could only raise there; it is exercised by SpecProcess.
StoreKinds == {"People", "Planets"}

DropLists == {<<"population">>, <<"population", "zzz">>}

Init ==
    /\ variant \in Variants
    /\ ManagerInit
    /\ call = [op |-> "__init__"]
    /\ ret = [err |-> "none"]

\* Mutant of register_processor: self.processors.setdefault(endpoint, processor).
register_processor_setdefault(endpoint, kind) ==
    /\ processors' = IF processors[endpoint] = "none"
                     THEN [processors EXCEPT ![endpoint] = kind] ELSE processors
    /\ call' = [op |-> "register_processor", endpoint |-> endpoint, kind |-> kind]
    /\ ret' = [err |-> "none"]
    /\ UNCHANGED <<variant, data, firstFetched>>

register_processor(endpoint, kind) ==
    /\ processors' = [processors EXCEPT ![endpoint] = kind]
    /\ call' = [op |-> "register_processor", endpoint |-> endpoint, kind |-> kind]
    /\ ret' = [err |-> "none"]
    /\ UNCHANGED <<variant, data, firstFetched>>

\* The outcome of fetch_entity: the exception raised ("none": returns
\* normally), the list fetch_json returned, whether self.data[endpoint]
\* was assigned, and the dict afterwards.
main_fetch_entity(endpoint, server, failAt) ==
    IF processors[endpoint] = "none"
    THEN [err |-> "ValueError", json_data |-> <<>>, stored |-> FALSE, data |-> data]
    ELSE LET r == client_fetch_json("main", server, failAt)
             p == process("main", processors[endpoint], r.data)
         IN IF r.err # "none"
            THEN [err |-> r.err, json_data |-> <<>>, stored |-> FALSE, data |-> data]
            ELSE IF p.err # "none"
            THEN [err |-> p.err, json_data |-> r.data, stored |-> FALSE, data |-> data]
            ELSE [err |-> "none", json_data |-> r.data, stored |-> TRUE,
                  data |-> SetItem(data, endpoint, p.df)]

manager_fetch_entity(endpoint, server, failAt) ==
    LET r == client_fetch_json("swapi_manager", server, failAt)
        p == process("swapi_manager", processors[endpoint], r.data)
    IN IF r.err # "none"
       THEN [err |-> r.err, json_data |-> <<>>, stored |-> FALSE, data |-> data]
       ELSE IF processors[endpoint] = "none"
       THEN [err |-> "none", json_data |-> r.data, stored |-> FALSE, data |-> data]
       ELSE IF p.err # "none"
       THEN [err |-> p.err, json_data |-> r.data, stored |-> FALSE, data |-> data]
       ELSE [err |-> "none", json_data |-> r.data, stored |-> TRUE,
             data |-> SetItem(data, endpoint, p.df)]

fetch_entity(endpoint, server, failAt) ==
    LET out == IF variant = "main" THEN main_fetch_entity(endpoint, server, failAt)
               ELSE manager_fetch_entity(endpoint, server, failAt)
    IN /\ data' = out.data
       /\ firstFetched' = IF out.stored /\ endpoint \notin Range(firstFetched)
                          THEN Append(firstFetched, endpoint) ELSE firstFetched
       /\ call' = [op |-> "fetch_entity", endpoint |-> endpoint,
                   failAt |-> failAt,
                   registered |-> processors[endpoint] # "none",
                   hadTable |-> HasItem(data, endpoint),
                   priorCols |-> IF HasItem(data, endpoint)
                                 THEN GetItem(data, endpoint).cols ELSE <<>>]
       /\ ret' = [err |-> out.err, json_data |-> out.json_data]
       /\ UNCHANGED <<variant, processors>>

\* swapi_manager.py only.
apply_filter(endpoint, columns_to_drop) ==
    /\ variant = "swapi_manager"
    /\ LET d == drop(GetItem(data, endpoint), columns_to_drop)
       IN IF HasItem(data, endpoint)
          THEN /\ data' = IF d.err = "none" THEN SetItem(data, endpoint, d.df) ELSE data
               /\ ret' = [err |-> d.err]
          ELSE /\ data' = data
               /\ ret' = [err |-> "none"]
    /\ call' = [op |-> "apply_filter", endpoint |-> endpoint,
                columns_to_drop |-> columns_to_drop,
                hadTable |-> HasItem(data, endpoint)]
    /\ UNCHANGED <<variant, processors, firstFetched>>

\* pd.ExcelWriter either cannot open the file (OSError, nothing written) or
\* receives one to_excel call per item of the dict, in dict order.  With no
\* item at all the writer is closed without a sheet, which the openpyxl
\* engine rejects (IndexError) and other engines accept.
save_to_excel(opens, emptyOk) ==
    /\ call' = [op |-> "save_to_excel"]
    /\ ret' = [err |-> IF ~opens THEN "OSError"
                       ELSE IF data = <<>> /\ ~emptyOk THEN "IndexError"
                       ELSE "none",
               sheets |-> IF opens
                          THEN [i \in 1..Len(data) |->
                                  [sheet_name |-> sheet_name(variant, data[i].k),
                                   endpoint |-> data[i].k, df |-> data[i].v]]
                          ELSE <<>>]
    /\ UNCHANGED <<variant, processors, data, firstFetched>>

Next ==
    \/ \E e \in Endpoints, kind \in StoreKinds : register_processor(e, kind)
    \/ \E e \in Endpoints, server \in StoreServers :
          \E failAt \in 0..Len(server) : fetch_entity(e, server, failAt)
    \/ \E e \in Endpoints, cols \in DropLists : apply_filter(e, cols)
    \/ \E opens \in BOOLEAN, emptyOk \in BOOLEAN : save_to_excel(opens, emptyOk)

Spec == Init /\ [][Next]_vars

(***************************************************************************)
(* Claims about fetch_json                                                 *)
(***************************************************************************)
RECURSIVE Flatten(_)
Flatten(pages) ==
    IF pages = <<>> THEN <<>> ELSE Head(pages).results \o Flatten(Tail(pages))

FetchDone == call.op = "fetch_json" /\ ret # Pending

\* C1: when every request of a finite chain of pages succeeds, fetch_json
\* returns the concatenation of the results of all pages, in page order.
C1_PaginationComplete ==
    (FetchDone /\ call.failAt = 0) =>
        (ret.err = "none" /\ ret.data = Flatten(call.server))

(***************************************************************************)
(* Claims about the processors                                             *)
(***************************************************************************)
ProcessDone == call.op = "process" /\ ret # Pending

Lacks(i) == ~HasKey(call.json_data[i], Required(call.kind))

\* C7: a processor fails whenever its required field is absent from at
\* least one input record, even if other records carry it.
C7_FailsOnAnyMissing ==
    (ProcessDone /\ \E i \in 1..Len(call.json_data) : Lacks(i)) =>
        ret.err = "KeyError"

\* Row i of the output carries every field of input record i (population
\* aside, which the Planets processor rewrites).
RowKeeps(i) ==
    \A k \in Keys(call.json_data[i]) :
        (call.kind = "Planets" /\ k = "population")
        \/ (k \in DOMAIN ret.df.rows[i]
            /\ ret.df.rows[i][k] = Get(call.json_data[i], k))

\* C8: on every input none of whose records lacks the required field, the
\* empty input included, a processor succeeds and returns one row per
\* input record, in input order.
C8_RowsPreserved ==
    (ProcessDone /\ \A i \in 1..Len(call.json_data) : ~Lacks(i)) =>
        /\ ret.err = "none"
        /\ Len(ret.df.rows) = Len(call.json_data)
        /\ \A i \in 1..Len(call.json_data) : RowKeeps(i)

\* What the numeric coercion is expected to give for each population text.
ExpectedPopulation(v) ==
    CASE v = Str(Pop1000) -> Num(1000)
      [] v = Str(Pop42) -> Num(42)
      [] OTHER -> NaN

\* C9: the Planets processor maps each row's population on its own: a
\* numeric text becomes the number, any other text becomes null, and a
\* non-numeric text neither aborts the processor nor changes other rows.
C9_PopulationCoerced ==
    (ProcessDone /\ call.kind = "Planets"
       /\ \E i \in 1..Len(call.json_data) : ~Lacks(i)) =>
        /\ ret.err = "none"
        /\ Len(ret.df.rows) = Len(call.json_data)
        /\ \A i \in 1..Len(call.json_data) :
              ~Lacks(i) =>
                 ret.df.rows[i]["population"]
                    = ExpectedPopulation(Get(call.json_data[i], "population"))

PopAt(i) == Get(call.json_data[i], "population")

C9_Witness ==
    /\ ProcessDone /\ call.kind = "Planets" /\ ret.err = "none"
    /\ Len(call.json_data) = 3
    /\ \A i \in 1..3 : ~Lacks(i)
    /\ PopAt(1) = Str(Pop1000) /\ PopAt(2) = Str(PopUnknown) /\ PopAt(3) = Str(Pop42)
    /\ ret.df.rows[1]["population"] = Num(1000)
    /\ ret.df.rows[2]["population"] = NaN
    /\ ret.df.rows[3]["population"] = Num(42)

(***************************************************************************)
(* Claims about the manager                                                *)
(***************************************************************************)
FetchEntityDone == call.op = "fetch_entity"

\* C2: fetch_entity for an endpoint without a registered processor fails
\* with the unregistered-endpoint error and never returns normally.
C2_UnregisteredFails ==
    (FetchEntityDone /\ ~call.registered) => ret.err = "ValueError"

Remaining(cols, columns_to_drop) ==
    SelectSeq(cols, LAMBDA c : c \notin Range(columns_to_drop))

\* C3: apply_filter on a stored table removes exactly the listed columns
\* the table has, ignores listed columns it does not have, raises nothing,
\* and leaves the values of the remaining columns unchanged.
C3_DropIgnoresUnknown ==
    [][(call'.op = "apply_filter" /\ call'.hadTable) =>
          LET e == call'.endpoint
              before == GetItem(data, e)
              after == GetItem(data', e)
              keep == Remaining(before.cols, call'.columns_to_drop)
          IN /\ ret'.err = "none"
             /\ after.cols = keep
             /\ Len(after.rows) = Len(before.rows)
             /\ \A i \in 1..Len(before.rows) : \A c \in Range(keep) :
                   after.rows[i][c] = before.rows[i][c]]_vars

\* A request of the last fetch_entity call was answered with a failure
\* (failAt, when not 0, is a page of the chain): swapi_manager.py requests
\* every page up to the failing one, main.py requests the first page only,
\* and only for a registered endpoint.
RequestFailed ==
    /\ call.op = "fetch_entity"
    /\ \/ variant = "swapi_manager" /\ call.failAt >= 1
       \/ variant = "main" /\ call.registered /\ call.failAt = 1

\* C4: when the request for any page fails during fetch_entity, the call
\* ends with the network error, no records are returned or processed, and
\* the stored tables are exactly those from before the call.
C4_FailedFetchLeavesStore ==
    [][RequestFailed' =>
          /\ ret'.err = "HTTPError"
          /\ ret'.json_data = <<>>
          /\ data' = data
          /\ firstFetched' = firstFetched]_vars

C4_Witness ==
    /\ RequestFailed /\ ret.err = "HTTPError"
    /\ call.failAt > 1
    /\ call.hadTable /\ Len(data) = 2

StoredOk == call.op = "fetch_entity" /\ ret.err = "none" /\ call.registered

\* C5: the store never holds two tables for one endpoint, and after a
\* successful fetch_entity the table of that endpoint is the processor's
\* output for the newly fetched records and nothing else.
C5_OneTableReplaced ==
    /\ \A i, j \in 1..Len(data) : data[i].k = data[j].k => i = j
    /\ StoredOk =>
          /\ HasItem(data, call.endpoint)
          /\ GetItem(data, call.endpoint)
                = process(variant, processors[call.endpoint], ret.json_data).df

C5_Witness ==
    /\ StoredOk /\ call.hadTable
    /\ "population" \notin Range(call.priorCols)
    /\ "population" \in Range(GetItem(data, call.endpoint).cols)

\* C6: registering a processor for an endpoint that already has one and a
\* stored table raises nothing and leaves the store as it is; the next
\* successful fetch_entity stores the output of the newly registered one.
C6_ReRegister ==
    [][/\ call'.op = "register_processor" =>
            /\ ret'.err = "none"
            /\ data' = data
            /\ processors'[call'.endpoint] = call'.kind
       /\ StoredOk' =>
            GetItem(data', call'.endpoint)
               = process(variant, processors[call'.endpoint], ret'.json_data).df]_vars

C6_Witness ==
    /\ call.op = "register_processor" /\ call.kind = "Planets"
    /\ HasItem(data, call.endpoint)
    /\ "full_name" \in Range(GetItem(data, call.endpoint).cols)

\* C10: save_to_excel writes one sheet per stored table, in the order in
\* which the endpoints first got a table (fetching an endpoint again does
\* not move it), and leaves the store unchanged.
C10_ExportOrder ==
    [][/\ DictKeys(data') = firstFetched'
       /\ call'.op = "save_to_excel" =>
            /\ data' = data /\ processors' = processors
            /\ ret'.err # "OSError" =>
                  /\ [i \in 1..Len(ret'.sheets) |-> ret'.sheets[i].endpoint] = firstFetched
                  /\ \A i \in 1..Len(ret'.sheets) :
                        ret'.sheets[i].df = GetItem(data, firstFetched[i])]_vars

C10_Witness ==
    /\ call.op = "save_to_excel" /\ ret.err = "none"
    /\ Len(ret.sheets) = 2
    /\ ret.sheets[1].endpoint = Str_films /\ ret.sheets[2].endpoint = Str_people

====
